---- MODULE Spec2Model ----
(***************************************************************************)
(* Model of util/tracing/visualization/fedsd_helper.py: the event-name     *)
(* dictionary prune_event_name and the svg_string_* routines that build    *)
(* SVG fragments.  A caller loads the module, then calls the routines one  *)
(* at a time; every call either returns a string or raises an exception.   *)
(* SVG fragments are TLA+ strings built by the same concatenations as the  *)
(* Python code; str(n) of an int is ToString(n).                           *)
(***************************************************************************)
EXTENDS Integers, Sequences, FiniteSets, TLC

VARIABLES prune_event_name, pc, op, args, result, raised

vars == <<prune_event_name, pc, op, args, result, raised>>

(***************************************************************************)
(* Bounds of the model.  Coordinates are image coordinates: the multiples  *)
(* of CoordStep from 0 to MaxCoord*CoordStep.                              *)
(***************************************************************************)
MaxCoord == 4

CoordStep == 25

Coords == {CoordStep * k : k \in 0..MaxCoord}

Labels == {"NET", "TIMESTAMP"}

Comments == {"", "Draw federates"}

UnknownEvents == {"unknown event", "Federate sends MSG to RTI"}

(***************************************************************************)
(* Python values and exceptions.                                           *)
(***************************************************************************)
NoException == "None"

Returns(v) == [raised |-> NoException, value |-> v]

Raises(e) == [raised |-> e, value |-> ""]

(***************************************************************************)
(* The dict literal of prune_event_name and dict.setdefault.               *)
(***************************************************************************)
EventNameLiteral ==
    ("Federate sends TIMESTAMP to RTI" :> "TIMESTAMP") @@
    ("Federate sends NET to RTI" :> "NET") @@
    ("Federate sends LTC to RTI" :> "LTC") @@
    ("Federate sends STOP_REQ to RTI" :> "STOP_REQ") @@
    ("Federate sends STOP_REQ_REP to RTI" :> "STOP_REQ_REP") @@
    ("Federate receives ACK from RTI" :> "ACK") @@
    ("Federate receives REJECT from RTI" :> "REJECT") @@
    ("Federate receives TIMESTAMP from RTI" :> "TIMESTAMP") @@
    ("Federate receives PTAG from RTI" :> "PTAG") @@
    ("Federate receives TAG from RTI" :> "TAG") @@
    ("Federate receives STOP_REQ from RTI" :> "STOP_REQ") @@
    ("Federate receives STOP_GRN from RTI" :> "STOP_GRN") @@
    ("Federate sends FED_ID to federate" :> "FED_ID") @@
    ("Federate receives FED_ID from federate" :> "FED_ID") @@
    ("RTI sends ACK to federate" :> "ACK") @@
    ("RTI sends REJECT to federate" :> "REJECT") @@
    ("RTI sends TIMESTAMP to federate" :> "TIMESTAMP") @@
    ("RTI sends PTAG to federate" :> "PTAG") @@
    ("RTI sends TAG to federate" :> "TAG") @@
    ("RTI sends STOP_REQ to federate" :> "STOP_REQ") @@
    ("RTI sends STOP_GRN to federate" :> "STOP_GRN") @@
    ("RTI sends JOIN to federate" :> "JOIN") @@
    ("RTI receives TIMESTAMP from federate" :> "TIMESTAMP") @@
    ("RTI receives NET from federate" :> "NET") @@
    ("RTI receives LTC from federate" :> "LTC") @@
    ("RTI receives STOP_REQ from federate" :> "STOP_REQ") @@
    ("RTI receives STOP_REQ_REP from federate" :> "STOP_REQ_REP")

\* dict.setdefault(k, v): inserts k -> v only when k is not yet a key.
SetDefault(d, k, v) == IF k \in DOMAIN d THEN d ELSE d @@ (k :> v)

\* A dictionary with one tag mistyped (mutant of the load).
ModuleLoadTypo ==
    SetDefault([EventNameLiteral EXCEPT !["RTI receives LTC from federate"] = "NET"],
               " ", "UNIDENTIFIED")

\* The value of prune_event_name once the module is imported.
ModuleLoad == SetDefault(EventNameLiteral, " ", "UNIDENTIFIED")

\* d[k] of a Python dict: KeyError for a key that is absent.
GetItem(d, k) == IF k \in DOMAIN d THEN Returns(d[k]) ELSE Raises("KeyError")

(***************************************************************************)
(* Floating point of the label routine, in fixed point: a real r is the    *)
(* integer r * Scale.  math.atan of the quotient p / q is computed from    *)
(* the arctangent series after reducing the argument below 0.43.           *)
(***************************************************************************)
Scale == 1000000

HalfPi == 1570796

\* floor(a * b / Scale) for 0 <= a, b < Scale, without leaving 32 bits.
MulS(a, b) == ((a \div 1000) * b + ((a % 1000) * b) \div 1000) \div 1000

RECURSIVE AtanTerms(_, _, _)
\* The terms of x - x^3/3 + x^5/5 - ... from the one of degree k on;
\* pw is x^k and x2 is x^2.
AtanTerms(pw, x2, k) ==
    IF k > 17 \/ pw = 0 THEN 0
    ELSE (pw \div k) - AtanTerms(MulS(pw, x2), x2, k + 2)

\* atan(a / b) for 0 <= a / b <= 3/7.
AtanSeries(a, b) ==
    LET x == (a * Scale) \div b IN AtanTerms(x, MulS(x, x), 1)

\* atan(p / q) for p >= 0, q > 0.
AtanAbs(p, q) ==
    IF 5 * p <= 2 * q THEN AtanSeries(p, q)
    ELSE IF 5 * q <= 2 * p THEN HalfPi - AtanSeries(q, p)
    ELSE IF p >= q THEN (HalfPi \div 2) + AtanSeries(p - q, p + q)
    ELSE (HalfPi \div 2) - AtanSeries(q - p, p + q)

\* math.atan(p / q), q # 0.
Atan(p, q) ==
    LET n == IF q < 0 THEN -p ELSE p
        d == IF q < 0 THEN -q ELSE q
    IN  IF n >= 0 THEN AtanAbs(n, d) ELSE -AtanAbs(-n, d)

\* n // d in place of math.ceil(n / d) (mutant).
CeilAsFloor(n, d) == n \div d

\* math.ceil(n / d) for d > 0.
Ceil(n, d) == -((-n) \div d)

\* The angle converted with pi in place of 3.14 (mutant).
CeilAnglePi(p, q) == Ceil(Atan(p, q) * 180, 2 * HalfPi)

\* math.ceil(math.atan(p / q) * 180 / 3.14)
CeilAngle(p, q) == Ceil(Atan(p, q) * 180, 314 * (Scale \div 100))

(***************************************************************************)
(* The routines.  Each is the string the Python function returns, or the   *)
(* exception it raises.                                                    *)
(***************************************************************************)
\* The line with the dashed flag read the wrong way round (mutant).
svg_string_draw_line_inverted(x1, y1, x2, y2, dashed) ==
    LET str_line == "\t<line x1=\"" \o ToString(x1) \o "\" y1=\"" \o ToString(y1)
                    \o "\" x2=\"" \o ToString(x2) \o "\" y2=\"" \o ToString(y2)
                    \o "\" stroke=\"black\" stroke-width=\"2\""
    IN  Returns((IF ~dashed THEN str_line \o " stroke-dasharray=\"10,10\" " ELSE str_line)
                \o "/>\n")

svg_string_draw_line(x1, y1, x2, y2, dashed) ==
    LET str_line == "\t<line x1=\"" \o ToString(x1) \o "\" y1=\"" \o ToString(y1)
                    \o "\" x2=\"" \o ToString(x2) \o "\" y2=\"" \o ToString(y2)
                    \o "\" stroke=\"black\" stroke-width=\"2\""
    IN  Returns((IF dashed THEN str_line \o " stroke-dasharray=\"10,10\" " ELSE str_line)
                \o "/>\n")

\* The path of the triangle with its tip at (x2, y2) and its base at x = bx.
ArrowHeadPath(x2, y2, bx) ==
    "\t<path d=\"M" \o ToString(x2) \o " " \o ToString(y2)
    \o " L" \o ToString(bx) \o " " \o ToString(y2 + 5)
    \o " L" \o ToString(bx) \o " " \o ToString(y2 - 5) \o " Z\" />\n"

\* The arrow head with x1 = x2 taken as pointing left (mutant).
svg_string_draw_arrow_head_tie_left(x1, x2, y2) ==
    IF x1 >= x2 THEN Returns(ArrowHeadPath(x2, y2, x2 + 10))
    ELSE Returns(ArrowHeadPath(x2, y2, x2 - 10))

svg_string_draw_arrow_head(x1, x2, y2) ==
    IF x1 > x2 THEN Returns(ArrowHeadPath(x2, y2, x2 + 10))
    ELSE Returns(ArrowHeadPath(x2, y2, x2 - 10))

\* The <text> element of a label; anchor is the text-anchor attribute or "".
LabelText(x, y, rotation, anchor, label) ==
    "\t<text transform=\"translate(" \o ToString(x) \o ", " \o ToString(y)
    \o ") rotate(" \o ToString(rotation) \o ")\" font-size=\"smaller\"" \o anchor
    \o ">" \o label \o "</text>\n"

svg_string_draw_label(x1, y1, x2, y2, label) ==
    IF x2 < x1 THEN
        IF y2 - y1 = 0 THEN Raises("ZeroDivisionError")
        ELSE LET rotation == (- CeilAngle(x2 - x1, y2 - y1)) - 90
             IN  Returns(LabelText(x2 + 5, y2 - 5, rotation, "", label))
    ELSE
        IF y1 - y2 = 0 THEN Raises("ZeroDivisionError")
        ELSE LET rotation == (- CeilAngle(x1 - x2, y1 - y2)) + 90
                 x == Ceil(x2 + x1, 2)
                 y == Ceil(y1 + y2, 2) - 5
             IN  Returns(LabelText(x, y, rotation, " text-anchor=\"middle\"", label))

\* a + b of two evaluations in sequence: the first exception raised ends it.
Concat(a, b) ==
    IF a.raised # NoException THEN a
    ELSE IF b.raised # NoException THEN b
    ELSE Returns(a.value \o b.value)

\* The arrow with the label ahead of the arrow head (mutant).
svg_string_draw_arrow_label_first(x1, y1, x2, y2, label, dashed) ==
    LET str_line1 == svg_string_draw_line(x1, y1, x2, y2, dashed)
        str_line2 == svg_string_draw_arrow_head(x1, x2, y2)
        str_line3 == svg_string_draw_label(x1, y1, x2, y2, label)
    IN  Concat(Concat(str_line1, str_line3), str_line2)

svg_string_draw_arrow(x1, y1, x2, y2, label, dashed) ==
    LET str_line1 == svg_string_draw_line(x1, y1, x2, y2, dashed)
        str_line2 == svg_string_draw_arrow_head(x1, x2, y2)
        str_line3 == svg_string_draw_label(x1, y1, x2, y2, label)
    IN  Concat(Concat(str_line1, str_line2), str_line3)

svg_string_comment(comment) == Returns("\n\t<!-- " \o comment \o " -->\n")

svg_string_draw_dot(x, y, label) ==
    LET str_line == "\t<circle cx=\"" \o ToString(x) \o "\" cy=\"" \o ToString(y)
                    \o "\" r=\"5\" stroke=\"black\" stroke-width=\"1\" fill=\"black\"/>\n"
    IN  Returns(str_line \o "\t<text x=\"" \o ToString(x + 5) \o "\", y=\""
                \o ToString(y + 2) \o "\" fill=\"blue\" font-size=\"smaller\">"
                \o label \o "</text>\n")

(***************************************************************************)
(* The caller.  From "idle" it makes one call with arguments of its        *)
(* choice; the call ends in "returned" with the string returned or the     *)
(* exception raised; Continue takes the caller back to "idle".             *)
(***************************************************************************)
NoArgs == [x1 |-> 0, y1 |-> 0, x2 |-> 0, y2 |-> 0, dashed |-> FALSE, text |-> ""]

Init ==
    /\ prune_event_name = ModuleLoad
    /\ pc = "idle"
    /\ op = "import"
    /\ args = NoArgs
    /\ result = ""
    /\ raised = NoException

\* The end of a call of routine o with arguments a and outcome r.
Finish(o, a, r) ==
    /\ pc' = "returned"
    /\ op' = o
    /\ args' = a
    /\ result' = r.value
    /\ raised' = r.raised

\* A lookup that also records the event in the dictionary (mutant).
LookupInserting(e) ==
    /\ pc = "idle"
    /\ Finish("prune_event_name", [NoArgs EXCEPT !.text = e],
              GetItem(prune_event_name, e))
    /\ prune_event_name' = SetDefault(prune_event_name, e, "UNIDENTIFIED")

\* prune_event_name[e]
Lookup(e) ==
    /\ pc = "idle"
    /\ Finish("prune_event_name", [NoArgs EXCEPT !.text = e],
              GetItem(prune_event_name, e))
    /\ UNCHANGED prune_event_name

DrawLine(x1, y1, x2, y2, dashed) ==
    /\ pc = "idle"
    /\ Finish("svg_string_draw_line",
              [NoArgs EXCEPT !.x1 = x1, !.y1 = y1, !.x2 = x2, !.y2 = y2,
                             !.dashed = dashed],
              svg_string_draw_line(x1, y1, x2, y2, dashed))
    /\ UNCHANGED prune_event_name

DrawArrowHead(x1, x2, y2) ==
    /\ pc = "idle"
    /\ Finish("svg_string_draw_arrow_head",
              [NoArgs EXCEPT !.x1 = x1, !.x2 = x2, !.y2 = y2],
              svg_string_draw_arrow_head(x1, x2, y2))
    /\ UNCHANGED prune_event_name

DrawLabel(x1, y1, x2, y2, label) ==
    /\ pc = "idle"
    /\ Finish("svg_string_draw_label",
              [NoArgs EXCEPT !.x1 = x1, !.y1 = y1, !.x2 = x2, !.y2 = y2,
                             !.text = label],
              svg_string_draw_label(x1, y1, x2, y2, label))
    /\ UNCHANGED prune_event_name

DrawArrow(x1, y1, x2, y2, label, dashed) ==
    /\ pc = "idle"
    /\ Finish("svg_string_draw_arrow",
              [x1 |-> x1, y1 |-> y1, x2 |-> x2, y2 |-> y2, dashed |-> dashed,
               text |-> label],
              svg_string_draw_arrow(x1, y1, x2, y2, label, dashed))
    /\ UNCHANGED prune_event_name

Comment(comment) ==
    /\ pc = "idle"
    /\ Finish("svg_string_comment", [NoArgs EXCEPT !.text = comment],
              svg_string_comment(comment))
    /\ UNCHANGED prune_event_name

DrawDot(x, y, label) ==
    /\ pc = "idle"
    /\ Finish("svg_string_draw_dot", [NoArgs EXCEPT !.x1 = x, !.y1 = y, !.text = label],
              svg_string_draw_dot(x, y, label))
    /\ UNCHANGED prune_event_name

\* The caller takes the outcome and goes on to its next call.
Continue ==
    /\ pc = "returned"
    /\ pc' = "idle"
    /\ op' = "import"
    /\ args' = NoArgs
    /\ result' = ""
    /\ raised' = NoException
    /\ UNCHANGED prune_event_name

Next ==
    \/ \E e \in DOMAIN prune_event_name \cup UnknownEvents : Lookup(e)
    \/ \E x1 \in Coords, y1 \in Coords, x2 \in Coords, y2 \in Coords, dashed \in BOOLEAN :
           DrawLine(x1, y1, x2, y2, dashed)
    \/ \E x1 \in Coords, x2 \in Coords, y2 \in Coords : DrawArrowHead(x1, x2, y2)
    \/ \E x1 \in Coords, y1 \in Coords, x2 \in Coords, y2 \in Coords, label \in Labels :
           DrawLabel(x1, y1, x2, y2, label)
    \/ \E x1 \in Coords, y1 \in Coords, x2 \in Coords, y2 \in Coords, label \in Labels,
          dashed \in BOOLEAN :
           DrawArrow(x1, y1, x2, y2, label, dashed)
    \/ \E comment \in Comments : Comment(comment)
    \/ \E x \in Coords, y \in Coords, label \in Labels : DrawDot(x, y, label)
    \/ Continue

Spec == Init /\ [][Next]_vars

(***************************************************************************)
(* Vocabulary of the properties.                                           *)
(***************************************************************************)
Returned(o) == pc = "returned" /\ op = o

Ok == raised = NoException

\* m occurs in s.
Contains(s, m) ==
    \E i \in 1..(Len(s) - Len(m) + 1) : SubSeq(s, i, i + Len(m) - 1) = m

\* The position of the n-th space of s.
NthSpace(s, n) ==
    LET spaces == {i \in 1..Len(s) : SubSeq(s, i, i) = " "}
    IN  CHOOSE i \in spaces : Cardinality({j \in spaces : j < i}) = n - 1

\* The message type a description names: its third word.
MessageTypeOf(s) == SubSeq(s, NthSpace(s, 2) + 1, NthSpace(s, 3) - 1)

GlossaryTags ==
    {"TIMESTAMP", "NET", "LTC", "STOP_REQ", "STOP_GRN", "PTAG", "TAG", "ACK",
     "REJECT", "FED_ID", "JOIN"}

\* The least integer m with m >= n / d, for d > 0 and |n / d| <= 91.
LeastIntegerAtLeast(n, d) ==
    CHOOSE m \in -91..91 : m * d >= n /\ (m - 1) * d < n

\* ceil of atan(p / q) in degrees, with 180 degrees to pi radians.
CeilDegrees(p, q) == LeastIntegerAtLeast(Atan(p, q) * 180, 2 * HalfPi)

\* ceil of atan(p / q) * 180 / 3.14, with 180 / 3.14 as 900 / 1.57.
CeilDegrees314(p, q) == LeastIntegerAtLeast(Atan(p, q) * 900, 157 * (Scale \div 10))

Horizontal == args.y1 = args.y2 /\ args.x1 # args.x2

Coincident == args.x1 = args.x2 /\ args.y1 = args.y2

Leftward == args.x2 < args.x1

Translate(x, y) == "translate(" \o ToString(x) \o ", " \o ToString(y) \o ")"

Rotate(r) == "rotate(" \o ToString(r) \o ")"

(***************************************************************************)
(* C1: a lookup of a string that is no key of the event-name table returns *)
(* "UNIDENTIFIED" and raises nothing.                                      *)
(***************************************************************************)
C1_UnknownEventFallsBack ==
    (Returned("prune_event_name") /\ args.text \notin DOMAIN prune_event_name)
        => (Ok /\ result = "UNIDENTIFIED")

(***************************************************************************)
(* C2 as stated: a lookup of a protocol event description returns the      *)
(* message type the description names, and that tag is one of the eleven   *)
(* glossary tags.                                                          *)
(***************************************************************************)
C2_TagIsGlossaryTag ==
    (Returned("prune_event_name") /\ args.text \in DOMAIN prune_event_name
                                  /\ args.text # " ")
        => (Ok /\ result = MessageTypeOf(args.text) /\ result \in GlossaryTags)

(***************************************************************************)
(* C2 amended: a lookup of a protocol event description returns the        *)
(* message type the description names, whichever the direction, and that   *)
(* tag is one of the eleven glossary tags or STOP_REQ_REP.                 *)
(***************************************************************************)
C2_TagIsNamedMessageType ==
    (Returned("prune_event_name") /\ args.text \in DOMAIN prune_event_name
                                  /\ args.text # " ")
        => (/\ Ok
            /\ result = MessageTypeOf(args.text)
            /\ result \in GlossaryTags \cup {"STOP_REQ_REP"})

C2_Witness ==
    /\ Returned("prune_event_name")
    /\ args.text = "RTI receives STOP_REQ_REP from federate"
    /\ result = "STOP_REQ_REP"

(***************************************************************************)
(* C3: for a horizontal segment (y1 = y2, x1 # x2), leftward or rightward, *)
(* the label routine raises nothing and returns a text with a rotation.    *)
(***************************************************************************)
C3_HorizontalLabelDoesNotFault ==
    (Returned("svg_string_draw_label") /\ Horizontal)
        => (Ok /\ Contains(result, "rotate("))

(***************************************************************************)
(* C4: the arrow is the line, then the arrow head, then the label, for the *)
(* same arguments and with nothing added; when one of the three raises,    *)
(* the arrow returns no fragment.                                          *)
(***************************************************************************)
C4_ArrowIsLineHeadLabel ==
    Returned("svg_string_draw_arrow") =>
        LET line  == svg_string_draw_line(args.x1, args.y1, args.x2, args.y2, args.dashed)
            head  == svg_string_draw_arrow_head(args.x1, args.x2, args.y2)
            label == svg_string_draw_label(args.x1, args.y1, args.x2, args.y2, args.text)
        IN  IF line.raised = NoException /\ head.raised = NoException
               /\ label.raised = NoException
            THEN Ok /\ result = line.value \o head.value \o label.value
            ELSE ~Ok /\ result = ""

C4_Witness ==
    /\ Returned("svg_string_draw_arrow")
    /\ Ok
    /\ args.dashed
    /\ Leftward
    /\ Len(result) > 0

(***************************************************************************)
(* C5: the arrow head is the triangle with its tip at (x2, y2) and its     *)
(* other two vertices at y2+5 and y2-5, both at x2+10 when x1 > x2 and     *)
(* both at x2-10 when x1 <= x2; it is the same for every y1.               *)
(***************************************************************************)
C5_Triangle ==
    LET bx == IF args.x1 > args.x2 THEN args.x2 + 10 ELSE args.x2 - 10
        triangle == "\t<path d=\"M" \o ToString(args.x2) \o " " \o ToString(args.y2)
                    \o " L" \o ToString(bx) \o " " \o ToString(args.y2 + 5)
                    \o " L" \o ToString(bx) \o " " \o ToString(args.y2 - 5)
                    \o " Z\" />\n"
    IN  /\ Returned("svg_string_draw_arrow_head") => (Ok /\ result = triangle)
        /\ (Returned("svg_string_draw_arrow") /\ Ok) => Contains(result, triangle)

C5_Witness ==
    /\ Returned("svg_string_draw_arrow_head")
    /\ args.x1 = args.x2
    /\ Contains(result, " L" \o ToString(args.x2 - 10) \o " ")

C7_RotationInDegrees ==
    (Returned("svg_string_draw_label") /\ args.y1 # args.y2) =>
        /\ Ok
        /\ IF Leftward
           THEN Contains(result,
                    Rotate((- CeilDegrees(args.x2 - args.x1, args.y2 - args.y1)) - 90))
           ELSE Contains(result,
                    Rotate((- CeilDegrees(args.x1 - args.x2, args.y1 - args.y2)) + 90))

(***************************************************************************)
(* C7 amended: for a segment that is not horizontal the rotation is        *)
(* -ceil(atan((x2-x1)/(y2-y1)) * 180 / 3.14) - 90 when x2 < x1 and         *)
(* -ceil(atan((x1-x2)/(y1-y2)) * 180 / 3.14) + 90 when x2 >= x1; a         *)
(* vertical segment gets rotation 90.                                      *)
(***************************************************************************)
C7_RotationWith314 ==
    (Returned("svg_string_draw_label") /\ args.y1 # args.y2) =>
        /\ Ok
        /\ IF Leftward
           THEN Contains(result,
                    Rotate((- CeilDegrees314(args.x2 - args.x1, args.y2 - args.y1)) - 90))
           ELSE Contains(result,
                    Rotate((- CeilDegrees314(args.x1 - args.x2, args.y1 - args.y2)) + 90))
        /\ args.x1 = args.x2 => Contains(result, "rotate(90)")

C7_Witness ==
    /\ Returned("svg_string_draw_label")
    /\ args.x1 = 0 /\ args.y1 = 0 /\ args.x2 = 25 /\ args.y2 = 25
    /\ Contains(result, "rotate(44)")

(***************************************************************************)
(* C8: the line carries x1, y1, x2 and y2 as given, and holds the dash     *)
(* pattern stroke-dasharray="10,10" exactly when dashed is true.           *)
(***************************************************************************)
C8_LineDashedIffFlag ==
    Returned("svg_string_draw_line") =>
        /\ Ok
        /\ Contains(result, "x1=\"" \o ToString(args.x1) \o "\" y1=\"" \o ToString(args.y1)
                            \o "\" x2=\"" \o ToString(args.x2) \o "\" y2=\""
                            \o ToString(args.y2) \o "\"")
        /\ Contains(result, "stroke-dasharray=\"10,10\"") <=> args.dashed
        /\ Contains(result, "dasharray") <=> args.dashed

C8_Witness ==
    /\ Returned("svg_string_draw_line")
    /\ args.dashed
    /\ args.x1 # args.x2
    /\ Contains(result, "stroke-dasharray=\"10,10\"")

(***************************************************************************)
(* C9: whatever calls were made, those that raised included, the           *)
(* event-name table has the keys and tags it had when the module loaded,   *)
(* so the outcome of a lookup depends on the string looked up alone.       *)
(***************************************************************************)
C9_TableNeverChanges ==
    /\ prune_event_name = ModuleLoad
    /\ Returned("prune_event_name")
           => [raised |-> raised, value |-> result] = GetItem(ModuleLoad, args.text)

C9_Witness ==
    /\ pc = "returned"
    /\ raised = "KeyError"
    /\ prune_event_name = ModuleLoad

(***************************************************************************)
(* C10: for coincident points (x1 = x2, y1 = y2) the label and the arrow   *)
(* return a fragment and raise nothing, as the line and the arrow head do. *)
(***************************************************************************)
C10_CoincidentPointsDoNotFault ==
    /\ (/\ pc = "returned"
        /\ op \in {"svg_string_draw_line", "svg_string_draw_label",
                   "svg_string_draw_arrow"}
        /\ Coincident)
           => (Ok /\ Len(result) > 0)
    /\ (Returned("svg_string_draw_arrow_head") /\ args.x1 = args.x2)
           => (Ok /\ Len(result) > 0)

====
